---------------------------- MODULE Spec2Model ----------------------------
(***************************************************************************)
(* Model of imdb/parser/http/searchMovieAdvancedParser.py: the composite   *)
(* "secondary info" parser (_re_secondary_info, _KIND_MAP,                 *)
(* _parse_secondary_info) and the result pipeline of                       *)
(* DOMHTMLSearchMovieAdvancedParser (rules, postprocess_data).             *)
(*                                                                         *)
(* A Python str is a sequence of characters; a character is a one-letter   *)
(* string, except the three named below, which TLA+ strings cannot hold.   *)
(***************************************************************************)
EXTENDS Integers, Sequences, FiniteSets, TLC

VARIABLES info, ret, doc, results, data, entry, pc, calls

vars == <<info, ret, doc, results, data, entry, pc, calls>>

-----------------------------------------------------------------------------
(* Characters *)

EnDash == "EN DASH"      \* U+2013, the dash of the pattern
LF     == "LINE FEED"    \* U+000A
NBSP   == "NO-BREAK SPACE" \* U+00A0

Upper == <<"A","B","C","D","E","F","G","H","I","J","K","L","M",
           "N","O","P","Q","R","S","T","U","V","W","X","Y","Z">>
Lower == <<"a","b","c","d","e","f","g","h","i","j","k","l","m",
           "n","o","p","q","r","s","t","u","v","w","x","y","z">>
Digit == <<"0","1","2","3","4","5","6","7","8","9">>

Range(f) == {f[i] : i \in DOMAIN f}

\* \d
IsDigit(c) == c \in Range(Digit)
\* \s
IsSpace(c) == c \in {" ", LF, NBSP}
\* [IVXLCM]
IsRoman(c) == c \in {"I", "V", "X", "L", "C", "M"}
\* . (no DOTALL flag: anything but a line feed)
IsDot(c) == c # LF

\* str.lower() of one character
LowerChar(c) ==
    IF c \in Range(Upper)
    THEN Lower[CHOOSE i \in DOMAIN Upper : Upper[i] = c]
    ELSE c

\* str.lower()
StrLower(s) == [i \in DOMAIN s |-> LowerChar(s[i])]

\* int() of one digit
DigitVal(c) == (CHOOSE i \in DOMAIN Digit : Digit[i] = c) - 1

\* int() of a run of digits, base 10
RECURSIVE StrToInt(_)
StrToInt(s) ==
    IF s = <<>> THEN 0
    ELSE 10 * StrToInt(SubSeq(s, 1, Len(s) - 1)) + DigitVal(s[Len(s)])

\* s[i:j] with 1-based inclusive ends
Slice(s, i, j) == SubSeq(s, i, j)

\* every character of s[i..j] satisfies the class
AllDigit(s, i, j) == j <= Len(s) /\ \A k \in i..j : IsDigit(s[k])
AllSpace(s, i, j) == j <= Len(s) /\ \A k \in i..j : IsSpace(s[k])
AllRoman(s, i, j) == j <= Len(s) /\ \A k \in i..j : IsRoman(s[k])
AllDot(s, i, j)   == j <= Len(s) /\ \A k \in i..j : IsDot(s[k])
At(s, i, c)       == i <= Len(s) /\ s[i] = c

Max(S) == CHOOSE x \in S : \A y \in S : y <= x

-----------------------------------------------------------------------------
(* _re_secondary_info, applied with re.match: anchored at the start of the *)
(* string, not at its end.  A group is [set, s]: set is FALSE for a group  *)
(* that did not take part in the match (Python's None).                    *)

YearDigits == 4

NoGroup == [set |-> FALSE, s |-> <<>>]
Group(s) == [set |-> TRUE, s |-> s]
\* Python truthiness of match.group(n)
Truthy(g) == g.set /\ g.s # <<>>

NoMatch == [matched |-> FALSE, g2 |-> NoGroup, g3 |-> NoGroup, g4 |-> NoGroup,
            g6 |-> NoGroup, g8 |-> NoGroup]

\* a slip: \s* written for \s+
TailTaken_Star(s, t) ==
    {ne \in (0..Len(s)) \X (1..Len(s)) :
        /\ AllSpace(s, t, t + ne[1] - 1)
        /\ ne[2] >= t + ne[1]
        /\ AllDot(s, t + ne[1], ne[2] - 1)
        /\ At(s, ne[2], ")")}

\* (\s+(.*))?  from position t: the ways the optional group can match with
\* a ")" after it, as <<length of the whitespace, position of the ")">>
TailTaken(s, t) ==
    {ne \in (1..Len(s)) \X (1..Len(s)) :
        /\ AllSpace(s, t, t + ne[1] - 1)
        /\ ne[2] >= t + ne[1]
        /\ AllDot(s, t + ne[1], ne[2] - 1)
        /\ At(s, ne[2], ")")}

\* \s+ and .* are greedy: the longest run of whitespace first, then the
\* longest text that still leaves a ")"
LongestTail(s, t, C) ==
    LET n == Max({ne[1] : ne \in C})
        e == Max({ne[2] : ne \in {x \in C : x[1] = n}})
    IN [ok |-> TRUE, g8 |-> Group(Slice(s, t + n, e - 1))]

\* (\s+(.*))?\)  from position t; C is TailTaken(s, t)
PickTail(s, t, C) ==
    IF C # {} THEN LongestTail(s, t, C)
    ELSE IF At(s, t, ")") THEN [ok |-> TRUE, g8 |-> NoGroup]
    ELSE [ok |-> FALSE, g8 |-> NoGroup]

MatchTail(s, t) == PickTail(s, t, TailTaken(s, t))

\* the match made of the groups of the year part and of a tail
WithTail(g3, g4, g6, tail) ==
    IF tail.ok
    THEN [matched |-> TRUE, g2 |-> NoGroup, g3 |-> g3, g4 |-> g4, g6 |-> g6,
          g8 |-> tail.g8]
    ELSE NoMatch

\* an alternative, and the one tried when it fails
FirstOf(a, b) == IF a.matched THEN a ELSE b

\* (EnDash(\s|(\d{4})))?  taken with \s, q being the position of the dash
OpenRange(s, g3, q) ==
    IF At(s, q, EnDash) /\ AllSpace(s, q + 1, q + 1)
    THEN WithTail(g3, Group(Slice(s, q, q + 1)), NoGroup, MatchTail(s, q + 2))
    ELSE NoMatch

\* (EnDash(\s|(\d{4})))?  taken with \d{4}
ClosedRange(s, g3, q) ==
    IF At(s, q, EnDash) /\ AllDigit(s, q + 1, q + YearDigits)
    THEN WithTail(g3, Group(Slice(s, q, q + YearDigits)),
                  Group(Slice(s, q + 1, q + YearDigits)),
                  MatchTail(s, q + 1 + YearDigits))
    ELSE NoMatch

\* (EnDash(\s|(\d{4})))?  not taken
NoRange(s, g3, q) == WithTail(g3, NoGroup, NoGroup, MatchTail(s, q))

\* \((\d{4})(EnDash(\s|(\d{4})))?(\s+(.*))?\)  from position p
MatchYear(s, p) ==
    IF At(s, p, "(") /\ AllDigit(s, p + 1, p + YearDigits)
    THEN FirstOf(OpenRange(s, Group(Slice(s, p + 1, p + YearDigits)),
                           p + 1 + YearDigits),
         FirstOf(ClosedRange(s, Group(Slice(s, p + 1, p + YearDigits)),
                             p + 1 + YearDigits),
                 NoRange(s, Group(Slice(s, p + 1, p + YearDigits)),
                         p + 1 + YearDigits)))
    ELSE NoMatch

\* (\(([IVXLCM]+)\)\s+)?  : the ways the optional index group can match with
\* the rest of the pattern after it, as <<length of the numeral, length of
\* the whitespace>>
IndexTaken(s) ==
    {rn \in (1..Len(s)) \X (1..Len(s)) :
        /\ At(s, 1, "(")
        /\ AllRoman(s, 2, 1 + rn[1])
        /\ At(s, 2 + rn[1], ")")
        /\ AllSpace(s, 3 + rn[1], 2 + rn[1] + rn[2])
        /\ MatchYear(s, 3 + rn[1] + rn[2]).matched}

\* the match with the index group taken, r and n being its lengths
WithIndex(s, r, n) ==
    [MatchYear(s, 3 + r + n) EXCEPT !.g2 = Group(Slice(s, 2, 1 + r))]

LongestIndex(s, C, r) ==
    WithIndex(s, r, Max({rn[2] : rn \in {x \in C : x[1] = r}}))

\* C is IndexTaken(s)
PickIndex(s, C) ==
    IF C # {} THEN LongestIndex(s, C, Max({rn[1] : rn \in C}))
    ELSE MatchYear(s, 1)

\* _re_secondary_info.match(info)
re_secondary_info(s) == PickIndex(s, IndexTaken(s))

-----------------------------------------------------------------------------
(* _KIND_MAP and _parse_secondary_info *)

S_movie      == <<"m","o","v","i","e">>
S_tv_series  == <<"t","v"," ","s","e","r","i","e","s">>
S_tv_short   == <<"t","v"," ","s","h","o","r","t">>
S_video      == <<"v","i","d","e","o">>
S_tv_short_movie == S_tv_short \o <<" ">> \o S_movie
S_video_movie    == S_video \o <<" ">> \o S_movie

KIND_MAP == [k \in {S_tv_short, S_video} |->
                IF k = S_tv_short THEN S_tv_short_movie ELSE S_video_movie]

\* dict.get(key, default)
DictGet(d, k, default) == IF k \in DOMAIN d THEN d[k] ELSE default

\* d[k] = v
DictSet(d, k, v) == [x \in DOMAIN d \cup {k} |-> IF x = k THEN v ELSE d[x]]

EmptyDict == [x \in {} |-> 0]

\* The value a call leaves: a returned dict, or the exception it raised.
Returned(v) == [exc |-> "", value |-> v]
Raised(e)   == [exc |-> e, value |-> EmptyDict]

\* a slip: the implicit kind only for a range without a second year
ImplicitKind_OpenOnly(match) ==
    IF Truthy(match.g4) /\ ~Truthy(match.g6) THEN Group(S_tv_series)
    ELSE NoGroup

\* a slip: group 6 tested for group 4
ImplicitKind_Group6(match) ==
    IF Truthy(match.g6) THEN Group(S_tv_series) ELSE NoGroup

\* if match.group(4): kind = 'tv series'
ImplicitKind(match) ==
    IF Truthy(match.g4) THEN Group(S_tv_series) ELSE NoGroup

\* a slip: the category only when no kind was inferred
ExplicitKind_UnlessImplicit(match, kind) ==
    IF Truthy(match.g8) /\ ~kind.set THEN Group(StrLower(match.g8.s))
    ELSE kind

\* if match.group(8): kind = match.group(8).lower()
ExplicitKind(match, kind) ==
    IF Truthy(match.g8) THEN Group(StrLower(match.g8.s)) ELSE kind

\* if kind is None: kind = 'movie'
DefaultKind(kind) == IF ~kind.set THEN S_movie ELSE kind.s

\* _KIND_MAP.get(kind, kind)
RenameKind(kind) == DictGet(KIND_MAP, kind, kind)

\* the body of _parse_secondary_info after the match
ParseMatch(match) ==
    LET p1 == IF Truthy(match.g2)
              THEN DictSet(EmptyDict, "imdbIndex", match.g2.s) ELSE EmptyDict
        p2 == IF Truthy(match.g3)
              THEN DictSet(p1, "year", StrToInt(match.g3.s)) ELSE p1
        p3 == IF Truthy(match.g6)
              THEN DictSet(p2, "end_year", StrToInt(match.g6.s)) ELSE p2
    IN
    \* match is None when the pattern does not match: match.group raises
    IF ~match.matched THEN Raised("AttributeError")
    ELSE Returned(DictSet(p3, "kind",
            RenameKind(DefaultKind(ExplicitKind(match, ImplicitKind(match))))))

parse_secondary_info(s) == ParseMatch(re_secondary_info(s))

-----------------------------------------------------------------------------
(* Inputs of _parse_secondary_info.  An input is kept as its pieces, in    *)
(* the order they are written; Render joins them into the string passed.   *)

MaxRoman == 2     \* longest roman numeral of an index group
MaxSep   == 2     \* longest run of whitespace before the category

SeqsUpTo(S, n) == UNION {[1..k -> S] : k \in 0..n}

T_Video     == <<"V","i","d","e","o">>
T_Short     == <<"S","h","o","r","t">>
T_TV_Short  == <<"T","V"," ","S","h","o","r","t">>
T_TV_Series == <<"T","V"," ","S","e","r","i","e","s">>
T_VideoSp   == T_Video \o <<" ">>

Y2004 == <<"2","0","0","4">>
Y1987 == <<"1","9","8","7">>
Y2006 == <<"2","0","0","6">>

Numerals == (SeqsUpTo({"I"}, MaxRoman) \ {<<>>}) \cup {<<"X">>}
\* "(I) " and the like; "(I)" lacks the whitespace the pattern asks for
IndexGroups == {<<"(">> \o r \o <<")", " ">> : r \in Numerals}
Prefixes  == {<<>>, <<"(", "I", ")">>} \cup IndexGroups
Years     == {Y2004, Y1987}
YearTexts == Years \cup {<<"2","0","0">>}
Ranges    == {<<>>, <<EnDash>>, <<EnDash>> \o Y2006}
Seps      == SeqsUpTo({" "}, MaxSep)
Texts     == {<<>>, T_Video, T_Short, T_TV_Short, T_TV_Series, T_VideoSp}
Suffixes  == {<<>>, <<" ", "(">> \o T_Short \o <<")">>,
              <<" ", "(">> \o T_Video \o <<")">>}

NoInfo == [pre |-> <<>>, open |-> FALSE, year |-> <<>>, range |-> <<>>,
           sep |-> <<>>, text |-> <<>>, close |-> FALSE, suffix |-> <<>>]

\* strings with a year group, well formed or not
GroupInfos == [pre : Prefixes, open : {TRUE}, year : YearTexts, range : Ranges,
               sep : Seps, text : Texts, close : BOOLEAN, suffix : Suffixes]

\* strings with no year group: "", "Video", "2004", "(TV Series 2004- )"
OtherInfos ==
    {NoInfo,
     [NoInfo EXCEPT !.text = T_Video],
     [NoInfo EXCEPT !.year = Y2004],
     [NoInfo EXCEPT !.pre = <<"(">> \o T_TV_Series \o <<" ">>, !.year = Y2004,
                    !.range = <<EnDash>>, !.sep = <<" ">>, !.close = TRUE]}

Infos == GroupInfos \cup OtherInfos

Render(i) ==
    i.pre \o (IF i.open THEN <<"(">> ELSE <<>>) \o i.year \o i.range \o i.sep
          \o i.text \o (IF i.close THEN <<")">> ELSE <<>>) \o i.suffix

NoRet == Returned(EmptyDict)
None  == [set |-> FALSE, n |-> 0]
Some(n) == [set |-> TRUE, n |-> n]
NoData == [present |-> FALSE, list |-> <<>>]

-----------------------------------------------------------------------------
(* The parser as a function: one call on one input *)

InitParse ==
    /\ info \in Infos
    /\ ret = NoRet
    /\ pc = "parse"
    /\ doc = <<>> /\ results = None /\ data = NoData /\ entry = NoData
    /\ calls = 0

ParseSecondaryInfo ==
    /\ pc = "parse"
    /\ ret' = parse_secondary_info(Render(info))
    /\ pc' = IF ret'.exc = "" THEN "parsed" ELSE "parse raised"
    /\ UNCHANGED <<info, doc, results, data, entry, calls>>

NextParse == ParseSecondaryInfo

SpecParse == InitParse /\ [][NextParse]_vars

-----------------------------------------------------------------------------
(* DOMHTMLSearchMovieAdvancedParser: the rules and postprocess_data.       *)
(* An item mapping is a function from its keys to their values; the        *)
(* 'data' list is a sequence of <<movieID, movie>> pairs.                   *)

MaxItems == 2    \* longest list of item nodes / records
MaxLimit == 3    \* largest configured results limit
MaxCalls == 2    \* calls of postprocess_data on the same data

Min(a, b) == IF a <= b THEN a ELSE b

\* dict.pop(key, None): the mapping without the key
DictPop(d, k) == [x \in DOMAIN d \ {k} |-> d[x]]

\* dict.update(other): the keys of other win
DictUpdate(d, other) ==
    [x \in DOMAIN d \cup DOMAIN other |->
        IF x \in DOMAIN other THEN other[x] ELSE d[x]]

\* list[:k] for an int k, as Python slices
SliceTo(list, k) ==
    IF k >= 0 THEN SubSeq(list, 1, Min(k, Len(list)))
    ELSE SubSeq(list, 1, Len(list) + k)

\* a slip: one record too many
Truncate_OffByOne(list, limit) ==
    IF limit.set THEN SliceTo(list, limit.n + 1) ELSE list

\* a slip: "if results:" for "if results is not None:"
Truncate_Truthy(list, limit) ==
    IF limit.set /\ limit.n # 0 THEN SliceTo(list, limit.n) ELSE list

\* a slip: data['data'][results:] for data['data'][:results]
Truncate_DropFirst(list, limit) ==
    IF limit.set THEN SubSeq(list, Min(limit.n, Len(list)) + 1, Len(list))
    ELSE list

\* results = getattr(self, 'results', None)
\* if results is not None: data['data'][:] = data['data'][:results]
Truncate(list, limit) ==
    IF limit.set THEN SliceTo(list, limit.n) ELSE list

\* movie.update(secondary), or the exception of the parse
MergeParsed(popped, secondary) ==
    IF secondary.exc # ""
    THEN [exc |-> secondary.exc, movie |-> popped]
    ELSE [exc |-> "", movie |-> DictUpdate(popped, secondary.value)]

\* the body of the loop of postprocess_data for one movie: the mapping it
\* leaves and the exception raised, if any.  The pop comes before the parse.
MergeSecondary(movie) ==
    IF "secondary_info" \notin DOMAIN movie
    THEN [exc |-> "", movie |-> movie]
    ELSE MergeParsed(DictPop(movie, "secondary_info"),
                     parse_secondary_info(movie["secondary_info"]))

\* The movies are changed in place and in order: the loop stops at the first
\* movie whose parse raises (stop), which leaves the movies before it merged,
\* that one without its secondary_info, and the ones after it as they were.
\* m[i] is MergeSecondary of movie i.
MergeUpTo(list, m, stop) ==
    [exc |-> IF stop > Len(list) THEN "" ELSE m[stop].exc,
     list |-> [i \in 1..Len(list) |->
                 IF i <= stop THEN <<list[i][1], m[i].movie>> ELSE list[i]]]

FirstRaising(list, m) ==
    IF \A i \in 1..Len(list) : m[i].exc = "" THEN Len(list) + 1
    ELSE CHOOSE i \in 1..Len(list) :
            m[i].exc # "" /\ \A j \in 1..(i - 1) : m[j].exc = ""

MergeLoop(list, m) == MergeUpTo(list, m, FirstRaising(list, m))

\* for movieID, movie in data['data']: ...
MergeAll(list) ==
    MergeLoop(list, [i \in 1..Len(list) |-> MergeSecondary(list[i][2])])

PostResult(merged) ==
    [exc |-> merged.exc, data |-> [present |-> TRUE, list |-> merged.list]]

\* postprocess_data(self, data) with self.results = limit
postprocess_data(d, limit) ==
    PostResult(MergeAll(Truncate(IF ~d.present THEN <<>> ELSE d.list, limit)))

\* ---- the rules ----

Title == "The Passion"
GoodLinks == {"/title/tt0000001/", "/title/tt0000002/"}
BadLink == "/chart/top"
Fail == [ok |-> FALSE, id |-> ""]

\* imdb.parser.http.utils.analyze_imdbid: the identifier in a link, or failure
analyze_imdbid(href) ==
    IF href = "/title/tt0000001/" THEN [ok |-> TRUE, id |-> "0000001"]
    ELSE IF href = "/title/tt0000002/" THEN [ok |-> TRUE, id |-> "0000002"]
    ELSE Fail

\* the secondary_info texts of the item nodes
InfoSamples ==
    {<<"(">> \o Y2004 \o <<EnDash, " ", ")">>,
     <<"(", "I", ")", " ", "(">> \o Y1987 \o <<EnDash>> \o Y2006 \o <<")">>,
     <<>>}

Opt(S) == {[set |-> FALSE, s |-> <<>>]} \cup {[set |-> TRUE, s |-> x] : x \in S}
NoLink == [set |-> FALSE, s |-> ""]
Links == {NoLink} \cup {[set |-> TRUE, s |-> l] : l \in GoodLinks \cup {BadLink}}

\* an item node: what the selectors of the nested rules find under it
Nodes == [link : Links, secondary_info : Opt(InfoSamples)]

\* the nested rules 'link', 'title', 'secondary_info' on one node: a key is
\* present only when its selector found a value
NestedRules(node) ==
    LET m0 == DictSet(EmptyDict, "title", Title)
        m1 == IF node.link.set THEN DictSet(m0, "link", node.link.s) ELSE m0
    IN IF node.secondary_info.set
       THEN DictSet(m1, "secondary_info", node.secondary_info.s) ELSE m1

\* the pair the transform returns, from what analyze_imdbid gave
TransformResult(r, x) == [ok |-> r.ok, id |-> r.id, movie |-> x]

\* a slip: the failure swallowed, the record kept with a null identifier
itemTransform_KeepFailed(x) ==
    IF "link" \notin DOMAIN x THEN [ok |-> TRUE, id |-> "", movie |-> x]
    ELSE [ok |-> TRUE, id |-> analyze_imdbid(x["link"]).id,
          movie |-> DictPop(x, "link")]

\* transform=lambda x: (analyze_imdbid(x.pop('link')), x)
itemTransform(x) ==
    IF "link" \notin DOMAIN x THEN [ok |-> FALSE, id |-> "", movie |-> x]
    ELSE TransformResult(analyze_imdbid(x["link"]), DictPop(x, "link"))

\* the records of one item: none when its transform failed
ItemRecords(r) == IF r.ok THEN <<<<r.id, r.movie>>>> ELSE <<>>

\* Rules(foreach=...).extract: one record per item node, in document order;
\* an item whose transform fails is skipped
RECURSIVE RulesExtract(_)
RulesExtract(nodes) ==
    IF nodes = <<>> THEN <<>>
    ELSE ItemRecords(itemTransform(NestedRules(Head(nodes))))
            \o RulesExtract(Tail(nodes))

DataOf(list) == [present |-> list # <<>>, list |-> list]

\* Rule(key='data', ...): the key is set only when something was extracted
evaluate(nodes) == DataOf(RulesExtract(nodes))

Limits == {None} \cup {Some(n) : n \in 0..MaxLimit}
Docs == UNION {[1..n -> Nodes] : n \in 0..MaxItems}

-----------------------------------------------------------------------------
(* The pipeline: a document is evaluated, then post-processed *)

Init ==
    /\ doc \in Docs
    /\ results \in Limits
    /\ data = NoData /\ entry = NoData
    /\ pc = "start"
    /\ calls = 0
    /\ info = NoInfo /\ ret = NoRet

Evaluate ==
    /\ pc = "start"
    /\ data' = evaluate(doc)
    /\ pc' = "evaluated"
    /\ UNCHANGED <<info, ret, doc, results, entry, calls>>

PostprocessData ==
    /\ pc \in {"evaluated", "done"}
    /\ calls < MaxCalls
    /\ data' = postprocess_data(data, results).data
    /\ pc' = IF postprocess_data(data, results).exc = ""
             THEN "done" ELSE "raised"
    /\ entry' = data
    /\ calls' = calls + 1
    /\ UNCHANGED <<info, ret, doc, results>>

Next == Evaluate \/ PostprocessData

Spec == Init /\ [][Next]_vars

-----------------------------------------------------------------------------
(* postprocess_data as a function of the engine output it is given: any    *)
(* list of records, also ones whose mapping already holds a field that the *)
(* secondary info decodes to                                               *)

MovieIDs == <<"0000001", "0000002", "0000003", "0000004">>
S_short == <<"s","h","o","r","t">>

\* the secondary_info texts of the records
MovieSamples ==
    {<<"(">> \o Y2004 \o <<")">>,
     <<"(", "I", ")", " ", "(">> \o Y1987 \o <<EnDash>> \o Y2006 \o <<")">>,
     <<>>}

WithOpt(S, k, vals) == S \cup {DictSet(m, k, v) : m \in S, v \in vals}

Movies ==
    WithOpt(WithOpt(WithOpt({DictSet(EmptyDict, "title", Title)},
                            "secondary_info", MovieSamples),
                    "year", {1999}),
            "kind", {S_short})

EngineLists ==
    UNION {{[i \in 1..n |-> <<MovieIDs[i], ms[i]>>] : ms \in [1..n -> Movies]}
            : n \in 0..MaxItems}

InitAssemble ==
    /\ data \in {NoData} \cup {[present |-> TRUE, list |-> l] : l \in EngineLists}
    /\ results \in Limits
    /\ entry = NoData
    /\ pc = "evaluated"
    /\ calls = 0
    /\ doc = <<>>
    /\ info = NoInfo /\ ret = NoRet

NextAssemble == PostprocessData

SpecAssemble == InitAssemble /\ [][NextAssemble]_vars

-----------------------------------------------------------------------------
(* Properties of _parse_secondary_info, under SpecParse *)

Parsed == pc \in {"parsed", "parse raised"}

\* the integer a year of the inputs is written for
YearValue(y) == IF y = Y2004 THEN 2004 ELSE 1987

\* "(I) " gives "I"
NumeralOf(pre) == SubSeq(pre, 2, Len(pre) - 2)

\* the rename table as the specification states it
Renamed(k) ==
    IF k = S_video THEN S_video_movie
    ELSE IF k = S_tv_short THEN S_tv_short_movie
    ELSE k

\* the fields expected beside kind for an input with a well-formed year
\* group and an optional well-formed index group
Expect(i, fields) ==
    IF i.pre = <<>> THEN fields
    ELSE DictSet(fields, "imdbIndex", NumeralOf(i.pre))

\* C1: parsing a string that does not match the grammar (the empty string,
\* garbage) raises nothing and returns exactly {kind: "movie"}.
C1_MismatchReturnsMovie ==
    (Parsed /\ info \in OtherInfos) => ret = Returned([kind |-> S_movie])

\* a closed year range with nothing after it: "(2004-2006)"
IsClosedRange(i) ==
    /\ i \in GroupInfos /\ i.pre = <<>> /\ i.year \in Years
    /\ i.range = <<EnDash>> \o Y2006
    /\ i.sep = <<>> /\ i.text = <<>> /\ i.close /\ i.suffix = <<>>

\* C2 as stated: a closed year range with no category text gives the first
\* year, the second year as end_year, and kind "movie".
C2_ClosedRangeIsMovie ==
    (Parsed /\ IsClosedRange(info)) =>
        ret = Returned([year |-> YearValue(info.year), end_year |-> 2006,
                        kind |-> S_movie])

\* C2 as amended: a closed year range with no category text gives the first
\* year, the second year as end_year, and kind "tv series": the implicit
\* kind applies to every range, with or without a second year.
C2_ClosedRangeIsTvSeries ==
    (Parsed /\ IsClosedRange(info)) =>
        ret = Returned([year |-> YearValue(info.year), end_year |-> 2006,
                        kind |-> S_tv_series])

C2_Witness ==
    /\ pc = "parsed" /\ IsClosedRange(info) /\ info.year = Y2004
    /\ "end_year" \in DOMAIN ret.value

\* a year group that carries a category after the year or the range; the
\* range is absent, closed, or the dash of an open-ended range
HasCategory(i) ==
    /\ i \in GroupInfos /\ i.pre \in {<<>>} \cup IndexGroups /\ i.year \in Years
    /\ Len(i.sep) >= 1 /\ i.text # <<>> /\ i.close /\ i.suffix = <<>>

KindIsCategory(i) ==
    /\ ret.exc = ""
    /\ "kind" \in DOMAIN ret.value
    /\ ret.value["kind"] = Renamed(StrLower(i.text))

IsOpenRange(i) ==
    /\ i \in GroupInfos /\ i.pre \in {<<>>} \cup IndexGroups /\ i.year \in Years
    /\ i.range = <<EnDash>> /\ Len(i.sep) >= 1 /\ i.text = <<>>
    /\ i.close /\ i.suffix = <<>>

\* C4: an input of the shape "(YYYY- )", with or without an index group
\* before it, gives year YYYY, no end_year, and kind "tv series".
C4_OpenRangeIsTvSeries ==
    (Parsed /\ IsOpenRange(info)) =>
        ret = Returned(Expect(info, [year |-> YearValue(info.year),
                                     kind |-> S_tv_series]))

C4_Witness ==
    /\ pc = "parsed" /\ IsOpenRange(info) /\ info.pre # <<>>
    /\ info.year = Y1987 /\ ret.value["kind"] = S_tv_series

\* "(I) (2004) (Short)" and "(2004) (Video)"
I_2004_Short ==
    [pre |-> <<"(", "I", ")", " ">>, open |-> TRUE, year |-> Y2004,
     range |-> <<>>, sep |-> <<>>, text |-> <<>>, close |-> TRUE,
     suffix |-> <<" ", "(">> \o T_Short \o <<")">>]
Only_2004_Video ==
    [pre |-> <<>>, open |-> TRUE, year |-> Y2004,
     range |-> <<>>, sep |-> <<>>, text |-> <<>>, close |-> TRUE,
     suffix |-> <<" ", "(">> \o T_Video \o <<")">>]

\* C5 as stated: a category in its own parenthesised group after the year
\* group is decoded as the kind: "(I) (2004) (Short)" gives
\* {imdbIndex: "I", year: 2004, kind: "short"} and "(2004) (Video)" gives
\* {year: 2004, kind: "video movie"}.
C5_TrailingGroupIsKind ==
    /\ (Parsed /\ info = I_2004_Short) =>
            ret = Returned([imdbIndex |-> <<"I">>, year |-> 2004,
                            kind |-> S_short])
    /\ (Parsed /\ info = Only_2004_Video) =>
            ret = Returned([year |-> 2004, kind |-> S_video_movie])

\* C5 as amended: a category in its own parenthesised group after the year
\* group is not decoded, the match ends with the year group:
\* "(I) (2004) (Short)" gives {imdbIndex: "I", year: 2004, kind: "movie"}
\* and "(2004) (Video)" gives {year: 2004, kind: "movie"}.
C5_TrailingGroupIgnored ==
    /\ (Parsed /\ info = I_2004_Short) =>
            ret = Returned([imdbIndex |-> <<"I">>, year |-> 2004,
                            kind |-> S_movie])
    /\ (Parsed /\ info = Only_2004_Video) =>
            ret = Returned([year |-> 2004, kind |-> S_movie])

C5_Witness ==
    /\ pc = "parsed" /\ info = I_2004_Short
    /\ ret.value["imdbIndex"] = <<"I">>

-----------------------------------------------------------------------------
(* Properties of postprocess_data, under SpecAssemble *)

Called == pc \in {"done", "raised"}

IDsOf(list) == [i \in 1..Len(list) |-> list[i][1]]
TitlesOf(list) == [i \in 1..Len(list) |-> list[i][2]["title"]]

\* list holds the first n records of the list before, in their order
IsPrefixOf(list, before, n) ==
    /\ Len(list) = n
    /\ n <= Len(before)
    /\ IDsOf(list) = SubSeq(IDsOf(before), 1, n)
    /\ TitlesOf(list) = SubSeq(TitlesOf(before), 1, n)

\* C6: with a limit k >= 0, the list postprocess_data leaves holds exactly
\* min(k, len) records, the first ones of its input in their order.
C6_Truncation ==
    (Called /\ results.set) =>
        IsPrefixOf(data.list, entry.list, Min(results.n, Len(entry.list)))

C6_Witness ==
    /\ pc = "done" /\ calls = 1 /\ results = Some(1)
    /\ Len(entry.list) = 2 /\ Len(data.list) = 1
    /\ data.list[1][1] = MovieIDs[1]

\* C7 as stated: with the limit absent or zero, every record of the input
\* is returned, in order.
C7_AbsentOrZeroUnbounded ==
    (pc = "done" /\ (~results.set \/ results.n = 0)) =>
        IsPrefixOf(data.list, entry.list, Len(entry.list))

\* C7 as amended: with the limit absent every record of the input is kept,
\* in order; with a limit of zero the list is left empty.
C7_AbsentUnboundedZeroEmpty ==
    /\ (Called /\ ~results.set) =>
            IsPrefixOf(data.list, entry.list, Len(entry.list))
    /\ (Called /\ results = Some(0)) => data.list = <<>>

C7_Witness ==
    /\ pc = "done" /\ calls = 1 /\ ~results.set
    /\ Len(entry.list) = 2 /\ Len(data.list) = 2
    /\ "secondary_info" \in DOMAIN entry.list[2][2]

\* C9: applying postprocess_data again to what it returned, with the same
\* limit, changes nothing: the same records, order and fields.
C9_Idempotent ==
    (pc = "done" /\ calls >= 2) => data = entry

C9_Witness ==
    /\ pc = "done" /\ calls = 2 /\ results = Some(1)
    /\ Len(data.list) = 1 /\ "end_year" \in DOMAIN data.list[1][2]

DecodedKeys == {"imdbIndex", "year", "end_year", "kind"}

-----------------------------------------------------------------------------
(* Properties of the pipeline, under Spec *)

\* the item nodes whose link gives an identifier
HasIdentifier(node) == node.link.set /\ analyze_imdbid(node.link.s).ok
IdentifiersOf(nodes) ==
    [i \in 1..Len(nodes) |-> analyze_imdbid(nodes[i].link.s).id]

Kept(n) == IF results.set THEN Min(results.n, n) ELSE n

=============================================================================
